---------------------------- MODULE Spec2Model ----------------------------
(***************************************************************************)
(* A state-machine model of stellar-core's Database class                  *)
(* (src/database/Database.cpp): process-wide driver registration, the      *)
(* primary session and its post-open tuning, the lazily built connection   *)
(* pool, the prepared-statement cache and the scoped SQL capture context.  *)
(*                                                                         *)
(* Strings whose content the code inspects (the configured URI, query      *)
(* texts, captured trace text) are sequences of one-character strings.     *)
(* The model follows the most recently constructed Database instance; the  *)
(* process-wide state (gDriversRegistered, the backend factories) is       *)
(* shared by all instances.                                                *)
(***************************************************************************)
EXTENDS Integers, Sequences, FiniteSets, TLC

\* ------------------------------------------------------------------ bounds

\* Database constructions followed in one run.
MaxDatabases == 2
\* Direct calls of the static Database::registerDrivers() in one run.
MaxRegisterCalls == 2
\* Largest value std::thread::hardware_concurrency() is given.
MaxHardware == 2
\* getPool() calls on one Database instance in one run.
MaxPoolCalls == 3
\* Threads calling registerDrivers() concurrently.
NumThreads == 2
\* getPreparedStatement() calls on one Database instance in one run.
MaxStatementCalls == 3
\* captureAndLogSQL() calls on one Database instance in one run.
MaxCaptures == 2
\* Queries the primary session traces outside getPreparedStatement.
MaxTraces == 2
\* Timer getter calls on one Database instance in one run.
MaxTimerCalls == 2

\* ----------------------------------------------------------------- strings

\* std::string::npos
npos == -1

\* The literal "sqlite3:" of Database::isSqlite.
Sqlite3Colon == <<"s", "q", "l", "i", "t", "e", "3", ":">>

\* The literal "sqlite3://:memory:" of Database::canUsePool.
MemoryUri == Sqlite3Colon \o <<"/", "/", ":", "m", "e", "m", "o", "r", "y", ":">>

\* sqlite3://s.db
FileUri == Sqlite3Colon \o <<"/", "/", "s", ".", "d", "b">>

\* postgresql://dbname=s
PgUri ==
    <<"p", "o", "s", "t", "g", "r", "e", "s", "q", "l", ":", "/", "/",
      "d", "b", "n", "a", "m", "e", "=", "s">>

\* postgresql://dbname=sqlite3:  (a networked URI whose parameters hold "sqlite3:")
PgOddUri ==
    <<"p", "o", "s", "t", "g", "r", "e", "s", "q", "l", ":", "/", "/",
      "d", "b", "n", "a", "m", "e", "=">> \o Sqlite3Colon

\* The values given to Config::DATABASE.
Uris == {MemoryUri, FileUri, PgUri, PgOddUri}

\* std::string::find(pat): the 0-based position of the first occurrence of
\* pat in s, npos when there is none.
Find(s, pat) ==
    LET hits == {i \in 0..(Len(s) - Len(pat)) :
                     SubSeq(s, i + 1, i + Len(pat)) = pat}
    IN  IF hits = {} THEN npos
        ELSE CHOOSE i \in hits : \A j \in hits : i <= j

\* Query texts: "a", "a " and the two-line "a\nb".
QueryA == <<"a">>
QueryASpace == <<"a", " ">>
QueryTwoLines == <<"a", "\n", "b">>
Queries == {QueryA, QueryASpace, QueryTwoLines}

\* Entity names given to the timer getters.
Entities == {"Account", "Offer"}

\* Names given to capture contexts.
Names == {"load", "store"}

\* The statements the code issues on a session.
PragmaWal == "PRAGMA journal_mode = WAL"
SetSerializableSql ==
    "SET SESSION CHARACTERISTICS AS TRANSACTION ISOLATION LEVEL SERIALIZABLE"

\* ------------------------------------------------------------------- state

VARIABLES
    usePostgres,        \* the build defines USE_POSTGRES
    hardware,           \* what std::thread::hardware_concurrency() returns
    gDriversRegistered, \* Database::gDriversRegistered
    factoryRegs,        \* backend -> times its register_factory_* ran
    regCalls,           \* history: calls of registerDrivers() so far
    dbId,               \* Database instances constructed so far
    constructed,        \* the followed instance's constructor returned
    DATABASE,           \* its Application's Config::DATABASE
    mSession,           \* Database::mSession
    mPool,              \* Database::mPool
    poolsMade,          \* history: connection_pool objects this instance made
    poolOpens,          \* history: sess.open() calls on pool entries
    poolCalls,          \* history: getPool() calls on this instance
    pc,                 \* thread -> its position in registerDrivers()
    mStatements,        \* Database::mStatements: query text -> statement
    stmtsMade,          \* soci::statement objects made (their identities)
    scopes,             \* the live StatementContext objects
    stmtCalls,          \* history: getPreparedStatement() calls
    returned,           \* history: query text -> statements returned for it
    prepareCalls,       \* history: query text -> prepare() calls with it
    logStream,          \* mSession's log stream: a capture context, 0 if null
    captures,           \* the live SQLLogContext objects
    capturesMade,       \* SQLLogContext objects made (their identities)
    sqlLog,             \* lines the SQLLogContext destructors logged
    traces,             \* history: queries traced outside the statement cache
    timerScopes,        \* the live medida::TimerContext objects
    samples,            \* metrics registry: timer name -> samples recorded
    timerCalls,         \* history: timer getter calls
    dropped,            \* history: dropAll calls of the latest initialize()
    ppc,                \* thread -> its position in getPool()
    pidx,               \* thread -> i of the loop of getPool()
    psess,              \* thread -> the pool that its reference sess is into
    got,                \* thread -> the pool getPool() returned to it, 0 if none
    holding,            \* thread -> the pool entry it is using, 0 if none
    ret                 \* outcome of the latest call

regVars == <<usePostgres, gDriversRegistered, factoryRegs, regCalls>>
flagVars == <<gDriversRegistered, factoryRegs, regCalls>>
dbVars == <<dbId, constructed, DATABASE, mSession>>
poolVars == <<hardware, mPool, poolsMade, poolOpens, poolCalls>>

stmtVars ==
    <<mStatements, stmtsMade, scopes, stmtCalls, returned, prepareCalls>>
capVars == <<logStream, captures, capturesMade, sqlLog, traces>>

timerVars == <<timerScopes, samples, timerCalls>>
threadVars == <<ppc, pidx, psess, got, holding>>
extraVars == <<timerVars, dropped, threadVars>>

vars == <<regVars, dbVars, poolVars, pc, stmtVars, capVars, extraVars, ret>>

Threads == 1..NumThreads

Backends == {"sqlite3", "postgresql"}

\* A default-constructed soci::session.
ClosedSession == [opened |-> FALSE, uri |-> <<>>, executed |-> <<>>]

\* session::open(uri)
OpenSession(sess, uri) == [sess EXCEPT !.opened = TRUE, !.uri = uri]

\* sess << sql
Execute(sess, sql) == [sess EXCEPT !.executed = Append(@, sql)]

\* setSerializable(sess)
setSerializable(sess) == Execute(sess, SetSerializableSql)

\* An empty std::unique_ptr<soci::connection_pool>.
NoPool == [id |-> 0, sessions |-> <<>>]

NoCall == [op |-> "none", status |-> "ok"]

\* ----------------------------------------------------- driver registration

\* The body of the if of registerDrivers: the factories the build links.
RegisterFactories(regs) ==
    [b \in Backends |->
        IF b = "sqlite3" \/ usePostgres THEN regs[b] + 1 ELSE regs[b]]

\* registerDrivers() without the test of gDriversRegistered.
registerDriversUnguarded(flag, regs) == <<TRUE, RegisterFactories(regs)>>

\* Database::registerDrivers() run by one thread without interference:
\* <<gDriversRegistered', factoryRegs'>>.
registerDrivers(flag, regs) ==
    IF ~flag THEN <<TRUE, RegisterFactories(regs)>> ELSE <<flag, regs>>

\* A direct call of the static method.
RegisterDriversCall ==
    /\ regCalls < MaxRegisterCalls + MaxDatabases
    /\ LET r == registerDrivers(gDriversRegistered, factoryRegs)
       IN  /\ gDriversRegistered' = r[1]
           /\ factoryRegs' = r[2]
    /\ regCalls' = regCalls + 1
    /\ ret' = [op |-> "registerDrivers", status |-> "ok"]
    /\ UNCHANGED <<usePostgres, dbVars, poolVars, pc, stmtVars, capVars>>
    /\ UNCHANGED extraVars

\* registerDrivers() run by several threads, one statement at a time.  The
\* flag is a plain bool: its test (line 51) and its store (line 57) are
\* separate steps with the factory registrations between them.

\* Thread t calls registerDrivers().
RegEnter(t) ==
    /\ pc[t] = "idle"
    /\ pc' = [pc EXCEPT ![t] = "test"]
    /\ regCalls' = regCalls + 1
    /\ UNCHANGED <<usePostgres, gDriversRegistered, factoryRegs, dbVars,
                   poolVars, stmtVars, capVars, ret>>
    /\ UNCHANGED extraVars

\* if (!gDriversRegistered)
RegTest(t) ==
    /\ pc[t] = "test"
    /\ pc' = [pc EXCEPT ![t] = IF ~gDriversRegistered THEN "sqlite3"
                                ELSE "done"]
    /\ UNCHANGED <<regVars, dbVars, poolVars, stmtVars, capVars, ret>>
    /\ UNCHANGED extraVars

\* register_factory_sqlite3();
RegSqlite(t) ==
    /\ pc[t] = "sqlite3"
    /\ factoryRegs' = [factoryRegs EXCEPT !["sqlite3"] = @ + 1]
    /\ pc' = [pc EXCEPT ![t] = IF usePostgres THEN "postgresql" ELSE "store"]
    /\ UNCHANGED <<usePostgres, gDriversRegistered, regCalls, dbVars,
                   poolVars, stmtVars, capVars, ret>>
    /\ UNCHANGED extraVars

\* register_factory_postgresql();  (under USE_POSTGRES)
RegPostgres(t) ==
    /\ pc[t] = "postgresql"
    /\ factoryRegs' = [factoryRegs EXCEPT !["postgresql"] = @ + 1]
    /\ pc' = [pc EXCEPT ![t] = "store"]
    /\ UNCHANGED <<usePostgres, gDriversRegistered, regCalls, dbVars,
                   poolVars, stmtVars, capVars, ret>>
    /\ UNCHANGED extraVars

\* gDriversRegistered = true;
RegStore(t) ==
    /\ pc[t] = "store"
    /\ gDriversRegistered' = TRUE
    /\ pc' = [pc EXCEPT ![t] = "done"]
    /\ UNCHANGED <<usePostgres, factoryRegs, regCalls, dbVars, poolVars, stmtVars, capVars, ret>>
    /\ UNCHANGED extraVars

\* Thread t returns from registerDrivers() and may call it again.
RegReturn(t) ==
    /\ pc[t] = "done"
    /\ regCalls < MaxRegisterCalls + NumThreads
    /\ pc' = [pc EXCEPT ![t] = "idle"]
    /\ ret' = [op |-> "registerDrivers", status |-> "ok"]
    /\ UNCHANGED <<regVars, dbVars, poolVars, stmtVars, capVars>>
    /\ UNCHANGED extraVars

\* ------------------------------------------------------------ construction

\* Database::isSqlite()
isSqlite(uri) == Find(uri, Sqlite3Colon) # npos

\* canUsePool() that never refuses.
canUsePoolAlways(uri) == TRUE

\* Database::canUsePool()
canUsePool(uri) == ~(uri = MemoryUri)

\* The post-open tuning of the constructor.
TunePrimary(sess, uri) ==
    IF isSqlite(uri) THEN Execute(sess, PragmaWal) ELSE setSerializable(sess)

\* How a constructor run ends: normally, or with mSession.open or the tuning
\* statement throwing.
CtorOutcomes == {"ok", "openThrows", "tuneThrows"}

\* Database::Database(app), app configured with uri.
Construct(uri, outcome) ==
    /\ dbId < MaxDatabases
    /\ dbId' = dbId + 1
    /\ LET r == registerDrivers(gDriversRegistered, factoryRegs)
       IN  /\ gDriversRegistered' = r[1]
           /\ factoryRegs' = r[2]
    /\ regCalls' = regCalls + 1
    /\ DATABASE' = uri
    /\ constructed' = (outcome = "ok")
    /\ mSession' = IF outcome = "ok"
                   THEN TunePrimary(OpenSession(ClosedSession, uri), uri)
                   ELSE ClosedSession
    /\ mPool' = NoPool
    /\ poolsMade' = 0
    /\ poolOpens' = 0
    /\ poolCalls' = 0
    /\ ret' = [op |-> "Database",
               status |-> IF outcome = "ok" THEN "ok" ELSE "throw"]
    /\ mStatements' = <<>>
    /\ stmtsMade' = 0
    /\ scopes' = {}
    /\ stmtCalls' = 0
    /\ returned' = [q \in Queries |-> {}]
    /\ prepareCalls' = [q \in Queries |-> 0]
    /\ logStream' = 0
    /\ captures' = <<>>
    /\ capturesMade' = 0
    /\ sqlLog' = <<>>
    /\ traces' = 0
    /\ timerScopes' = {}
    /\ samples' = <<>>
    /\ timerCalls' = 0
    /\ dropped' = <<>>
    /\ \A t \in Threads : ppc[t] = "idle"
    /\ got' = [t \in Threads |-> 0]
    /\ holding' = [t \in Threads |-> 0]
    /\ UNCHANGED <<usePostgres, hardware, pc, ppc, pidx, psess>>

\* A call of isSqlite() on the constructed Database.
IsSqliteCall ==
    /\ constructed
    /\ ret' = [op |-> "isSqlite", status |-> "ok",
               value |-> isSqlite(DATABASE)]
    /\ UNCHANGED <<regVars, dbVars, poolVars, pc, stmtVars, capVars,
                   extraVars>>

\* --------------------------------------------------------- connection pool

\* How the loop of getPool ends: every entry opened and tuned ("none"), or
\* entry `at` (0-based) throwing in sess.open ("open") or in setSerializable
\* ("tune").
PoolFailures(n, uri) ==
    {[stage |-> "none", at |-> n]}
    \cup {[stage |-> "open", at |-> i] : i \in 0..(n - 1)}
    \cup {[stage |-> "tune", at |-> i] :
              i \in IF isSqlite(uri) THEN {} ELSE 0..(n - 1)}

\* One pool entry after the loop body ran for it.
PoolEntry(uri) ==
    LET s == OpenSession(ClosedSession, uri)
    IN  IF ~isSqlite(uri) THEN setSerializable(s) ELSE s

\* The n entries of the new pool when the loop of getPool ends as `fail`.
PoolSessions(n, uri, fail) ==
    [i \in 1..n |->
        IF i - 1 < fail.at THEN PoolEntry(uri)
        ELSE IF i - 1 = fail.at /\ fail.stage = "tune"
             THEN OpenSession(ClosedSession, uri)
        ELSE ClosedSession]

\* sess.open calls made by the loop.
LoopOpens(n, fail) == IF fail.stage = "none" THEN n ELSE fail.at + 1

\* The values `fail` is drawn from.
FailureInputs == UNION {PoolFailures(n, PgUri) : n \in 0..MaxHardware}

\* A test of mPool that always takes the construction branch.
PoolMissingAlways(pool) == TRUE

\* !mPool
PoolMissing(pool) == pool = NoPool

\* Database::getPool()
GetPool(fail) ==
    /\ constructed
    /\ poolCalls < MaxPoolCalls
    /\ poolCalls' = poolCalls + 1
    /\ IF ~PoolMissing(mPool)
       THEN /\ fail.stage = "none"
            /\ ret' = [op |-> "getPool", status |-> "ok", pool |-> mPool.id,
                       size |-> Len(mPool.sessions)]
            /\ UNCHANGED <<mPool, poolsMade, poolOpens>>
       ELSE IF ~canUsePool(DATABASE)
       THEN /\ fail.stage = "none"
            /\ ret' = [op |-> "getPool", status |-> "throw", pool |-> 0,
                       size |-> 0]
            /\ UNCHANGED <<mPool, poolsMade, poolOpens>>
       ELSE /\ fail \in PoolFailures(hardware, DATABASE)
            /\ mPool' = [id |-> poolsMade + 1,
                         sessions |-> PoolSessions(hardware, DATABASE, fail)]
            /\ poolsMade' = poolsMade + 1
            /\ poolOpens' = poolOpens + LoopOpens(hardware, fail)
            /\ ret' = IF fail.stage = "none"
                      THEN [op |-> "getPool", status |-> "ok",
                            pool |-> poolsMade + 1, size |-> hardware]
                      ELSE [op |-> "getPool", status |-> "throw", pool |-> 0,
                            size |-> 0]
    /\ UNCHANGED <<regVars, dbVars, hardware, pc, stmtVars, capVars>>
    /\ UNCHANGED extraVars

\* getPool() run by several threads, one statement at a time.  mPool is a
\* plain unique_ptr: its test (line 135) and its assignment (line 146) are
\* separate steps, and the loop takes its reference to an entry through
\* mPool each time round (line 150) before it uses it (lines 151, 154).

\* Thread t calls getPool().
PoolEnter(t) ==
    /\ constructed
    /\ ppc[t] = "idle"
    /\ poolCalls < MaxPoolCalls
    /\ poolCalls' = poolCalls + 1
    /\ ppc' = [ppc EXCEPT ![t] = "test"]
    /\ UNCHANGED <<regVars, dbVars, hardware, mPool, poolsMade, poolOpens, pc,
                   stmtVars, capVars, timerVars, dropped, pidx, psess, got,
                   holding, ret>>

\* if (!mPool), and inside it if (!canUsePool()) throw
PoolTest(t) ==
    /\ ppc[t] = "test"
    /\ IF ~PoolMissing(mPool)
       THEN /\ ppc' = [ppc EXCEPT ![t] = "return"]
            /\ UNCHANGED ret
       ELSE IF ~canUsePool(DATABASE)
       THEN /\ ppc' = [ppc EXCEPT ![t] = "idle"]
            /\ ret' = [op |-> "getPool", status |-> "throw", pool |-> 0,
                       size |-> 0]
       ELSE /\ ppc' = [ppc EXCEPT ![t] = "make"]
            /\ UNCHANGED ret
    /\ UNCHANGED <<regVars, dbVars, poolVars, pc, stmtVars, capVars,
                   timerVars, dropped, pidx, psess, got, holding>>

\* mPool = make_unique<soci::connection_pool>(n), which destroys the pool
\* mPool held, and the entry of the loop.
PoolMake(t) ==
    /\ ppc[t] = "make"
    /\ mPool' = [id |-> poolsMade + 1,
                 sessions |-> [i \in 1..hardware |-> ClosedSession]]
    /\ poolsMade' = poolsMade + 1
    /\ pidx' = [pidx EXCEPT ![t] = 0]
    /\ ppc' = [ppc EXCEPT ![t] = IF 0 < hardware THEN "at" ELSE "return"]
    /\ UNCHANGED <<regVars, dbVars, hardware, poolOpens, poolCalls, pc,
                   stmtVars, capVars, timerVars, dropped, psess, got, holding,
                   ret>>

\* The position after the loop body ran for entry i.
AfterEntry(i) == IF i + 1 < hardware THEN "at" ELSE "return"

\* soci::session& sess = mPool->at(i): sess refers into the pool mPool
\* holds at this moment.
PoolAt(t) ==
    /\ ppc[t] = "at"
    /\ psess' = [psess EXCEPT ![t] = mPool.id]
    /\ ppc' = [ppc EXCEPT ![t] = "open"]
    /\ UNCHANGED <<regVars, dbVars, hardware, mPool, poolsMade, poolOpens,
                   poolCalls, pc, stmtVars, capVars, timerVars, dropped, pidx,
                   got, holding, ret>>

\* sess.open(c);  When another thread has replaced the pool since sess was
\* taken, sess refers into a destroyed pool: the open then lands on the
\* same entry of the current pool (`reused`, the memory having been given
\* out again) or on nothing the program still has.
PoolOpen(t, ok, reused) ==
    /\ ppc[t] = "open"
    /\ reused => psess[t] # mPool.id
    /\ poolOpens' = poolOpens + 1
    /\ IF ok
       THEN /\ mPool' = IF psess[t] = mPool.id \/ reused
                        THEN [mPool EXCEPT !.sessions[pidx[t] + 1] =
                                               OpenSession(@, DATABASE)]
                        ELSE mPool
            /\ IF ~isSqlite(DATABASE)
               THEN /\ ppc' = [ppc EXCEPT ![t] = "tune"]
                    /\ UNCHANGED pidx
               ELSE /\ ppc' = [ppc EXCEPT ![t] = AfterEntry(pidx[t])]
                    /\ pidx' = [pidx EXCEPT ![t] = @ + 1]
            /\ UNCHANGED ret
       ELSE /\ ppc' = [ppc EXCEPT ![t] = "idle"]
            /\ ret' = [op |-> "getPool", status |-> "throw", pool |-> 0,
                       size |-> 0]
            /\ UNCHANGED <<mPool, pidx>>
    /\ UNCHANGED <<regVars, dbVars, hardware, poolsMade, poolCalls, pc,
                   stmtVars, capVars, timerVars, dropped, psess, got, holding>>

\* setSerializable(sess);  When another thread has replaced the pool since
\* sess was taken, sess refers into a destroyed pool: the statement then
\* lands on the same entry of the current pool (`reused`, the memory having
\* been given out again) or on nothing the program still has.
PoolTune(t, ok, reused) ==
    /\ ppc[t] = "tune"
    /\ reused => psess[t] # mPool.id
    /\ IF ok
       THEN /\ mPool' = IF psess[t] = mPool.id \/ reused
                        THEN [mPool EXCEPT !.sessions[pidx[t] + 1] =
                                               setSerializable(@)]
                        ELSE mPool
            /\ ppc' = [ppc EXCEPT ![t] = AfterEntry(pidx[t])]
            /\ pidx' = [pidx EXCEPT ![t] = @ + 1]
            /\ UNCHANGED ret
       ELSE /\ ppc' = [ppc EXCEPT ![t] = "idle"]
            /\ ret' = [op |-> "getPool", status |-> "throw", pool |-> 0,
                       size |-> 0]
            /\ UNCHANGED <<mPool, pidx>>
    /\ UNCHANGED <<regVars, dbVars, hardware, poolsMade, poolOpens, poolCalls,
                   pc, stmtVars, capVars, timerVars, dropped, psess, got,
                   holding>>

\* assert(mPool); return *mPool;
PoolReturn(t) ==
    /\ ppc[t] = "return"
    /\ ppc' = [ppc EXCEPT ![t] = "idle"]
    /\ got' = [got EXCEPT ![t] = mPool.id]
    /\ ret' = [op |-> "getPool", status |-> "ok", pool |-> mPool.id,
               size |-> Len(mPool.sessions)]
    /\ UNCHANGED <<regVars, dbVars, poolVars, pc, stmtVars, capVars,
                   timerVars, dropped, pidx, psess, holding>>

\* A thread that was returned the pool starts using entry i of it, reaching
\* it by position as getPool does (mPool->at(i)): nothing is acquired.
TakeSlot(t, i) ==
    /\ ppc[t] = "idle"
    /\ got[t] # 0
    /\ got[t] = mPool.id
    /\ holding[t] = 0
    /\ i \in 1..Len(mPool.sessions)
    /\ holding' = [holding EXCEPT ![t] = i]
    /\ UNCHANGED <<regVars, dbVars, poolVars, pc, stmtVars, capVars,
                   timerVars, dropped, ppc, pidx, psess, got, ret>>

\* The thread is done with the entry.
ReleaseSlot(t) ==
    /\ holding[t] # 0
    /\ holding' = [holding EXCEPT ![t] = 0]
    /\ UNCHANGED <<regVars, dbVars, poolVars, pc, stmtVars, capVars,
                   timerVars, dropped, ppc, pidx, psess, got, ret>>

\* --------------------------------------------------------------- SQL trace

\* std::getline over the captured text: the text cut at each "\n"; a last
\* piece with no "\n" after it is a line too, an empty rest is not.
RECURSIVE GetLines(_)
GetLines(text) ==
    IF text = <<>> THEN <<>>
    ELSE LET i == Find(text, <<"\n">>)
         IN  IF i = npos THEN <<text>>
             ELSE <<SubSeq(text, 1, i)>>
                      \o GetLines(SubSeq(text, i + 2, Len(text)))

\* soci's session::log_query(query), run for every query a session
\* prepares or executes: query and "\n" go to the log stream when one is
\* set.  Each live context also notes the lines traced during its life
\* (history, in `seen`).
LogQuery(caps, stream, query) ==
    [c \in DOMAIN caps |->
        [caps[c] EXCEPT
            !.buf = IF c = stream THEN @ \o query \o <<"\n">> ELSE @,
            !.seen = @ \o GetLines(query \o <<"\n">>)]]

\* The primary session traces a query issued by one of its users.
SessionLogQuery(query) ==
    /\ constructed
    /\ traces < MaxTraces
    /\ traces' = traces + 1
    /\ captures' = LogQuery(captures, logStream, query)
    /\ ret' = [op |-> "query", status |-> "ok"]
    /\ UNCHANGED <<regVars, dbVars, poolVars, pc, stmtVars, logStream,
                   capturesMade, sqlLog>>
    /\ UNCHANGED extraVars

\* The stream the SQLLogContext constructor leaves set on the session:
\* mSess.set_log_stream(&mCapture) of the new context, whatever was set.
StreamAfterCapture(stream, new) == new

\* SQLLogContext::SQLLogContext (through Database::captureAndLogSQL)
CaptureAndLogSQL(contextName) ==
    /\ constructed
    /\ capturesMade < MaxCaptures
    /\ capturesMade' = capturesMade + 1
    /\ captures' = captures @@
           ((capturesMade + 1) :>
               [name |-> contextName, buf |-> <<>>, seen |-> <<>>])
    /\ logStream' = StreamAfterCapture(logStream, capturesMade + 1)
    /\ ret' = [op |-> "captureAndLogSQL", status |-> "ok",
               context |-> capturesMade + 1]
    /\ UNCHANGED <<regVars, dbVars, poolVars, pc, stmtVars, sqlLog, traces>>
    /\ UNCHANGED extraVars

Separator == <<"[SQL] -----------------------">>

\* The lines the destructor logs for a context named name with the
\* captured text buf.
CaptureBlock(name, buf) ==
    << <<"">>, <<"">>, Separator, <<"[SQL] begin capture: ", name>>,
       Separator >>
    \o [i \in 1..Len(GetLines(buf)) |->
            <<"[SQL:", name, "] ">> \o GetLines(buf)[i]]
    \o << Separator, <<"[SQL] end capture: ", name>>, Separator,
          <<"">>, <<"">> >>

\* A destructor that leaves the stream as it finds it.
StreamAfterDestroyKept(stream, c) == stream

\* The stream the destructor of context c leaves set on the session:
\* mSess.set_log_stream(nullptr), whatever was set.
StreamAfterDestroy(stream, c) == 0

\* SQLLogContext::~SQLLogContext, when the last owner of context c drops it.
DestroyCapture(c) ==
    /\ c \in DOMAIN captures
    /\ logStream' = StreamAfterDestroy(logStream, c)
    /\ sqlLog' = sqlLog \o CaptureBlock(captures[c].name, captures[c].buf)
    /\ captures' = [d \in DOMAIN captures \ {c} |-> captures[d]]
    /\ ret' = [op |-> "~SQLLogContext", status |-> "ok", context |-> c]
    /\ UNCHANGED <<regVars, dbVars, poolVars, pc, stmtVars, capturesMade,
                   traces>>
    /\ UNCHANGED extraVars

\* --------------------------------------------------------- statement cache

\* A lookup that never finds the text.
FindStatementNever(cache, query) == 0

\* mStatements.find(query): the statement cached for the text, 0 for end().
FindStatement(cache, query) ==
    IF query \in DOMAIN cache THEN cache[query] ELSE 0

\* mStatements.insert(std::make_pair(query, p)): std::map keeps an entry
\* it already has.
InsertStatement(cache, query, p) ==
    IF query \in DOMAIN cache THEN cache ELSE cache @@ (query :> p)

\* How a call ends: normally, or with p->alloc() or p->prepare(query)
\* throwing.
StatementOutcomes == {"ok", "allocThrows", "prepareThrows"}

\* A cache that keeps only the statement prepared last.
CacheAfterMissEvicting(cache, query, p, outcome) ==
    IF outcome = "ok" THEN (query :> p) ELSE cache

\* The insert moved before alloc and prepare.
CacheAfterMissEager(cache, query, p, outcome) ==
    IF query \in DOMAIN cache THEN cache ELSE cache @@ (query :> p)

\* The cache after the miss branch was left as `outcome`: the insert is
\* reached only when alloc and prepare returned.
CacheAfterMiss(cache, query, p, outcome) ==
    IF outcome = "ok" THEN InsertStatement(cache, query, p) ELSE cache

\* Database::getPreparedStatement(query)
GetPreparedStatement(query, outcome) ==
    /\ constructed
    /\ stmtCalls < MaxStatementCalls
    /\ stmtCalls' = stmtCalls + 1
    /\ LET i == FindStatement(mStatements, query)
           p == IF i = 0 THEN stmtsMade + 1 ELSE i
       IN  IF i = 0
           THEN /\ stmtsMade' = stmtsMade + 1
                /\ mStatements' = CacheAfterMiss(mStatements, query, p, outcome)
                /\ prepareCalls' =
                       IF outcome = "allocThrows" THEN prepareCalls
                       ELSE [prepareCalls EXCEPT ![query] = @ + 1]
                /\ captures' =
                       IF outcome = "allocThrows" THEN captures
                       ELSE LogQuery(captures, logStream, query)
                /\ IF outcome = "ok"
                   THEN /\ scopes' = scopes \cup
                               {[scope |-> stmtCalls + 1, stmt |-> p]}
                        /\ returned' =
                               [returned EXCEPT ![query] = @ \cup {p}]
                        /\ ret' = [op |-> "getPreparedStatement",
                                   status |-> "ok", query |-> query,
                                   stmt |-> p, hit |-> FALSE]
                   ELSE /\ ret' = [op |-> "getPreparedStatement",
                                   status |-> "throw", query |-> query,
                                   stmt |-> 0, hit |-> FALSE]
                        /\ UNCHANGED <<scopes, returned>>
           ELSE /\ outcome = "ok"
                /\ scopes' = scopes \cup {[scope |-> stmtCalls + 1, stmt |-> p]}
                /\ returned' = [returned EXCEPT ![query] = @ \cup {p}]
                /\ ret' = [op |-> "getPreparedStatement", status |-> "ok",
                           query |-> query, stmt |-> p, hit |-> TRUE]
                /\ UNCHANGED <<mStatements, stmtsMade, prepareCalls, captures>>
    /\ UNCHANGED <<regVars, dbVars, poolVars, pc, logStream, capturesMade,
                   sqlLog, traces>>
    /\ UNCHANGED extraVars

\* A StatementContext goes out of scope: its hold on the statement ends,
\* the statement stays in the cache.
ReleaseStatement(sc) ==
    /\ sc \in scopes
    /\ scopes' = scopes \ {sc}
    /\ ret' = [op |-> "~StatementContext", status |-> "ok"]
    /\ UNCHANGED <<regVars, dbVars, poolVars, pc, mStatements, stmtsMade,
                   stmtCalls, returned, prepareCalls, capVars>>
    /\ UNCHANGED extraVars

\* ------------------------------------------------------------------ timers

\* The metric name {"database", category, entityName} of the getters.
TimerName(category, entityName) == <<"database", category, entityName>>

\* The name Database::getInsertTimer asks for.
getInsertTimerName(entityName) == TimerName("insert", entityName)

\* getSelectTimer with the category of getInsertTimer.
getSelectTimerNameCopied(entityName) == TimerName("insert", entityName)

\* The name Database::getSelectTimer asks for.
getSelectTimerName(entityName) == TimerName("select", entityName)

\* The name Database::getDeleteTimer asks for.
getDeleteTimerName(entityName) == TimerName("delete", entityName)

\* The name Database::getUpdateTimer asks for.
getUpdateTimerName(entityName) == TimerName("update", entityName)

\* MetricsRegistry::NewTimer(name): the timer of that name, made with no
\* sample when the registry has none.
NewTimer(registry, name) ==
    IF name \in DOMAIN registry THEN registry ELSE registry @@ (name :> 0)

\* mApp.getMetrics().NewTimer(name).TimeScope(), called by `getter`.
TimeScope(getter, entityName, name) ==
    /\ constructed
    /\ timerCalls < MaxTimerCalls
    /\ timerCalls' = timerCalls + 1
    /\ samples' = NewTimer(samples, name)
    /\ timerScopes' = timerScopes \cup
           {[scope |-> timerCalls + 1, name |-> name, getter |-> getter,
             entity |-> entityName]}
    /\ ret' = [op |-> getter, status |-> "ok", scope |-> timerCalls + 1]
    /\ UNCHANGED <<regVars, dbVars, poolVars, pc, stmtVars, capVars, dropped,
                   threadVars>>

\* Database::getInsertTimer(entityName)
GetInsertTimer(entityName) ==
    TimeScope("getInsertTimer", entityName, getInsertTimerName(entityName))

\* Database::getSelectTimer(entityName)
GetSelectTimer(entityName) ==
    TimeScope("getSelectTimer", entityName, getSelectTimerName(entityName))

\* Database::getDeleteTimer(entityName)
GetDeleteTimer(entityName) ==
    TimeScope("getDeleteTimer", entityName, getDeleteTimerName(entityName))

\* Database::getUpdateTimer(entityName)
GetUpdateTimer(entityName) ==
    TimeScope("getUpdateTimer", entityName, getUpdateTimerName(entityName))

\* How the operation a timer scope wraps ends.
ScopeExits == {"return", "unwind"}

\* A TimerContext goes out of scope, the wrapped operation having returned
\* or thrown: one duration sample goes to its timer.
TimerScopeExit(sc, exit) ==
    /\ sc \in timerScopes
    /\ timerScopes' = timerScopes \ {sc}
    /\ samples' = [samples EXCEPT ![sc.name] = @ + 1]
    /\ ret' = [op |-> "~TimerContext", status |-> "ok", scope |-> sc.scope,
               exit |-> exit]
    /\ UNCHANGED <<regVars, dbVars, poolVars, pc, stmtVars, capVars, dropped,
                   threadVars, timerCalls>>

\* -------------------------------------------------------------- initialize

\* The dropAll calls of initialize(), in the order of its statements.
DropAllOrder ==
    <<"AccountFrame", "OfferFrame", "TrustFrame", "OverlayManagerImpl",
      "PersistentState", "LedgerHeaderFrame", "TransactionFrame">>

\* The exceptions a dropAll of `owner` can throw, each the words of its
\* what(): an allocation failure, a failure of the session, and a failure
\* whose text says which collaborator it comes from.  The collaborators are
\* not part of the source, so a text of theirs may or may not name them.
DropAllFailures(owner) ==
    {<<"std::bad_alloc">>,
     <<"soci_error", "connection", "lost">>,
     <<"soci_error", "dropAll", owner>>}

\* No exception.
NoException == <<>>

\* Database::initialize(); the thrower-th dropAll throws `exception`, none
\* when thrower is 0.  initialize() has no try/catch: the exception leaves
\* it at the call that threw and reaches the caller as it was thrown, with
\* nothing added.  What a dropAll does to the store is the collaborator's
\* and is left out.
Initialize(thrower, exception) ==
    /\ constructed
    /\ thrower \in 0..Len(DropAllOrder)
    /\ IF thrower = 0
       THEN exception = NoException
       ELSE exception \in DropAllFailures(DropAllOrder[thrower])
    /\ dropped' = IF thrower = 0 THEN DropAllOrder
                  ELSE SubSeq(DropAllOrder, 1, thrower)
    /\ ret' = [op |-> "initialize",
               status |-> IF thrower = 0 THEN "ok" ELSE "throw",
               what |-> exception]
    /\ UNCHANGED <<regVars, dbVars, poolVars, pc, stmtVars, capVars,
                   timerVars, threadVars>>

\* -------------------------------------------------------------- getBalance

\* Currency types: the native currency and an issued one.
CurrencyTypes == {"NATIVE", "ISO4217"}

\* Balances the store holds.
Balances == {0, 5, 9}

\* What AccountFrame::loadAccount finds for the account: nothing, or the
\* account with its balance.
AccountEntries ==
    {[found |-> FALSE, balance |-> 0]}
    \cup {[found |-> TRUE, balance |-> b] : b \in Balances}

\* What TrustFrame::loadTrustLine finds for the account and currency:
\* nothing, or the trust line with its authorized flag and balance.
TrustEntries ==
    {[found |-> FALSE, authorized |-> FALSE, balance |-> 0]}
    \cup {[found |-> TRUE, authorized |-> a, balance |-> b] :
              a \in BOOLEAN, b \in Balances}

\* getBalance without the test of the authorized flag.
getBalanceUnauthorized(currencyType, account, trustLine) ==
    IF currencyType = "NATIVE"
    THEN IF account.found THEN account.balance ELSE 0
    ELSE IF trustLine.found THEN trustLine.balance ELSE 0

\* The value Database::getBalance returns.
getBalance(currencyType, account, trustLine) ==
    IF currencyType = "NATIVE"
    THEN IF account.found THEN account.balance ELSE 0
    ELSE IF trustLine.found
         THEN IF trustLine.authorized THEN trustLine.balance ELSE 0
         ELSE 0

\* Database::getBalance(accountID, currency), the store holding `account`
\* for accountID and `trustLine` for accountID and currency.
GetBalance(currencyType, account, trustLine) ==
    /\ constructed
    /\ ret' = [op |-> "getBalance", status |-> "ok",
               currencyType |-> currencyType, account |-> account,
               trustLine |-> trustLine,
               value |-> getBalance(currencyType, account, trustLine)]
    /\ UNCHANGED <<regVars, dbVars, poolVars, pc, stmtVars, capVars,
                   extraVars>>

\* ----------------------------------------------------------- specification

Init ==
    /\ usePostgres \in BOOLEAN
    /\ hardware \in 0..MaxHardware
    /\ gDriversRegistered = FALSE
    /\ factoryRegs = [b \in Backends |-> 0]
    /\ regCalls = 0
    /\ dbId = 0
    /\ constructed = FALSE
    /\ DATABASE = <<>>
    /\ mSession = ClosedSession
    /\ mPool = NoPool
    /\ poolsMade = 0
    /\ poolOpens = 0
    /\ poolCalls = 0
    /\ pc = [t \in Threads |-> "idle"]
    /\ mStatements = <<>>
    /\ stmtsMade = 0
    /\ scopes = {}
    /\ stmtCalls = 0
    /\ returned = [q \in Queries |-> {}]
    /\ prepareCalls = [q \in Queries |-> 0]
    /\ logStream = 0
    /\ captures = <<>>
    /\ capturesMade = 0
    /\ sqlLog = <<>>
    /\ traces = 0
    /\ timerScopes = {}
    /\ samples = <<>>
    /\ timerCalls = 0
    /\ dropped = <<>>
    /\ ppc = [t \in Threads |-> "idle"]
    /\ pidx = [t \in Threads |-> 0]
    /\ psess = [t \in Threads |-> 0]
    /\ got = [t \in Threads |-> 0]
    /\ holding = [t \in Threads |-> 0]
    /\ ret = NoCall

Next ==
    \/ RegisterDriversCall
    \/ \E uri \in Uris, outcome \in CtorOutcomes : Construct(uri, outcome)
    \/ \E fail \in FailureInputs : GetPool(fail)
    \/ IsSqliteCall

Spec == Init /\ [][Next]_vars

\* Several threads inside registerDrivers() at once.
NextRegThreads ==
    \E t \in Threads :
        \/ RegEnter(t)
        \/ RegTest(t)
        \/ RegSqlite(t)
        \/ RegPostgres(t)
        \/ RegStore(t)
        \/ RegReturn(t)

SpecRegThreads == Init /\ [][NextRegThreads]_vars

\* One thread using the statement cache of the primary session.
NextStatements ==
    \/ \E uri \in Uris, outcome \in CtorOutcomes : Construct(uri, outcome)
    \/ \E query \in Queries, outcome \in StatementOutcomes :
          GetPreparedStatement(query, outcome)
    \/ \E sc \in scopes : ReleaseStatement(sc)

SpecStatements == Init /\ [][NextStatements]_vars

\* One thread capturing the SQL trace of the primary session, embedded or
\* networked.
CaptureUris == {FileUri, PgUri}

\* The queries traced: one of one line and one of two.
TracedQueries == {QueryA, QueryTwoLines}

NextCapture ==
    \/ \E uri \in CaptureUris, outcome \in CtorOutcomes :
          Construct(uri, outcome)
    \/ \E contextName \in Names : CaptureAndLogSQL(contextName)
    \/ \E query \in TracedQueries : SessionLogQuery(query)
    \/ \E c \in DOMAIN captures : DestroyCapture(c)

SpecCapture == Init /\ [][NextCapture]_vars

\* Several threads inside getPool() at once, and using the pool it returned.
NextPoolThreads ==
    \/ \E uri \in Uris, outcome \in CtorOutcomes : Construct(uri, outcome)
    \/ \E t \in Threads :
          \/ PoolEnter(t)
          \/ PoolTest(t)
          \/ PoolMake(t)
          \/ PoolAt(t)
          \/ \E ok \in BOOLEAN, reused \in BOOLEAN : PoolOpen(t, ok, reused)
          \/ \E ok \in BOOLEAN, reused \in BOOLEAN : PoolTune(t, ok, reused)
          \/ PoolReturn(t)
          \/ \E i \in 1..MaxHardware : TakeSlot(t, i)
          \/ ReleaseSlot(t)

SpecPoolThreads == Init /\ [][NextPoolThreads]_vars

\* One thread resetting the store.
NextInitialize ==
    \/ \E uri \in Uris, outcome \in CtorOutcomes : Construct(uri, outcome)
    \/ \E thrower \in 0..Len(DropAllOrder),
          exception \in {NoException}
              \cup UNION {DropAllFailures(owner) :
                             owner \in {DropAllOrder[i] :
                                            i \in DOMAIN DropAllOrder}} :
          Initialize(thrower, exception)

SpecInitialize == Init /\ [][NextInitialize]_vars

\* One thread asking for balances.
NextBalance ==
    \/ \E uri \in Uris, outcome \in CtorOutcomes : Construct(uri, outcome)
    \/ \E currencyType \in CurrencyTypes, account \in AccountEntries,
          trustLine \in TrustEntries :
          GetBalance(currencyType, account, trustLine)

SpecBalance == Init /\ [][NextBalance]_vars

\* One thread timing its operations.
NextTimers ==
    \/ \E uri \in Uris, outcome \in CtorOutcomes : Construct(uri, outcome)
    \/ \E entityName \in Entities : GetInsertTimer(entityName)
    \/ \E entityName \in Entities : GetSelectTimer(entityName)
    \/ \E entityName \in Entities : GetDeleteTimer(entityName)
    \/ \E entityName \in Entities : GetUpdateTimer(entityName)
    \/ \E sc \in timerScopes, exit \in ScopeExits : TimerScopeExit(sc, exit)

SpecTimers == Init /\ [][NextTimers]_vars

\* ------------------------------------------------------------------ claims

\* What one registerDrivers() call leaves in a fresh process.
RegisteredOnce == [b \in Backends |-> IF b = "sqlite3" \/ usePostgres THEN 1 ELSE 0]

\* C1: after N >= 1 sequential registerDrivers() calls, direct or through
\* Database constructions, every linked backend factory has been registered
\* exactly once and the registered state is the one a single call leaves.
C1_RegistrationIdempotent ==
    regCalls >= 1 =>
        /\ gDriversRegistered
        /\ factoryRegs = RegisteredOnce

\* C1 witness: a direct call has returned after at least two earlier calls,
\* one of them made by a constructor.
C1_Witness ==
    /\ regCalls >= 3
    /\ dbId >= 1
    /\ ret.op = "registerDrivers"

\* C2: with registerDrivers() called from several threads whose steps
\* interleave, no backend factory is registered more than once.
C2_RegisteredAtMostOnce ==
    \A b \in Backends : factoryRegs[b] <= 1

\* C3: on a Database configured with the embedded-memory sentinel, every
\* getPool() call throws, the pool stays unconstructed and no pool session
\* is opened.
C3_NonPoolableAlwaysFails ==
    (constructed /\ DATABASE = MemoryUri) =>
        /\ mPool = NoPool
        /\ poolsMade = 0
        /\ poolOpens = 0
        /\ ret.op = "getPool" => ret.status = "throw"

\* C3 witness: a second or later getPool() call on such a Database has thrown.
C3_Witness ==
    /\ constructed
    /\ DATABASE = MemoryUri
    /\ poolCalls >= 2
    /\ ret.op = "getPool"
    /\ ret.status = "throw"

\* C4: once the pool of a Database exists, no later getPool() call changes
\* it or opens a session, and every later getPool() call returns that pool
\* with its size; at most one pool is ever made.
C4_PoolStable ==
    [][(mPool # NoPool /\ dbId' = dbId) =>
          /\ mPool' = mPool
          /\ poolsMade' = poolsMade
          /\ poolsMade = 1
          /\ poolOpens' = poolOpens
          /\ ret'.op = "getPool" =>
                /\ ret'.status = "ok"
                /\ ret'.pool = mPool.id
                /\ ret'.size = Len(mPool.sessions)]_vars

\* C4 witness: a poolable Database whose second or later getPool() call
\* returned the pool.
C4_Witness ==
    /\ constructed
    /\ canUsePool(DATABASE)
    /\ poolCalls >= 2
    /\ mPool # NoPool
    /\ Len(mPool.sessions) >= 1
    /\ ret.op = "getPool"
    /\ ret.status = "ok"

\* C5: over all getPreparedStatement() calls on one Database, two calls
\* with the same query text returned the same statement and two calls with
\* different texts returned different statements.
C5_SameTextSameStatement ==
    \A q1 \in Queries, q2 \in Queries :
        \A a \in returned[q1], b \in returned[q2] : (q1 = q2) <=> (a = b)

\* C5 witness: a call answered from the cache, after calls with two
\* different texts returned.
C5_Witness ==
    /\ ret.op = "getPreparedStatement"
    /\ ret.status = "ok"
    /\ ret.hit
    /\ \E q \in Queries : q # ret.query /\ returned[q] # {}

\* C6: a getPreparedStatement() call that throws leaves the cache and the
\* live scopes as they were, with no entry for its text, and the next call
\* with that text makes and prepares a statement again instead of finding
\* one.
C6_FailedPrepareLeavesCache ==
    [][(stmtCalls' = stmtCalls + 1) =>
          /\ ret'.status = "throw" =>
                /\ mStatements' = mStatements
                /\ scopes' = scopes
                /\ ret'.query \notin DOMAIN mStatements'
          /\ (/\ ret.op = "getPreparedStatement"
              /\ ret.status = "throw"
              /\ ret'.query = ret.query) =>
                /\ ~ret'.hit
                /\ stmtsMade' = stmtsMade + 1]_vars

\* C6 witness: a call threw in prepare for a text whose preparation had
\* failed before.
C6_Witness ==
    /\ ret.op = "getPreparedStatement"
    /\ ret.status = "throw"
    /\ prepareCalls[ret.query] >= 2
    /\ ret.query \notin DOMAIN mStatements

\* C7: no two live StatementContext scopes hold the same prepared
\* statement at the same time.
C7_ExclusiveCheckout ==
    \A s1 \in scopes, s2 \in scopes : s1.stmt = s2.stmt => s1 = s2

\* C8: at most one capture context is alive on the session at any time.
C8_OneCaptureAtATime ==
    Cardinality(DOMAIN captures) <= 1

\* The block of the spec for a context named name and the trace lines
\* `lines`: two blank lines, separator, begin line, separator, the lines
\* each under the name tag, separator, end line, separator, two blank lines.
ExpectedBlock(name, lines) ==
    << <<"">>, <<"">>, Separator, <<"[SQL] begin capture: ", name>>,
       Separator >>
    \o [i \in 1..Len(lines) |-> <<"[SQL:", name, "] ">> \o lines[i]]
    \o << Separator, <<"[SQL] end capture: ", name>>, Separator,
          <<"">>, <<"">> >>

\* C9: the block a capture context logs at its exit holds, between its
\* begin and end delimiters, exactly the lines the session traced while the
\* context was alive, each under the name tag, in the order traced.
C9_BlockHoldsTracedLines ==
    [][\A c \in DOMAIN captures :
          (c \notin DOMAIN captures' /\ dbId' = dbId) =>
              sqlLog' = sqlLog
                  \o ExpectedBlock(captures[c].name, captures[c].seen)]_vars

\* The scheme of a URI of the form scheme:parameters, with its colon.
SchemeColon(uri) == SubSeq(uri, 1, Find(uri, <<":">>) + 1)

\* C10: the constructor tunes the primary session by backend kind: WAL
\* journaling and nothing else for a URI of scheme sqlite3, serializable
\* isolation and nothing else for a URI of any other scheme.
C10_TuningByBackendKind ==
    constructed =>
        /\ mSession.opened
        /\ mSession.executed = IF SchemeColon(DATABASE) = Sqlite3Colon
                               THEN <<PragmaWal>>
                               ELSE <<SetSerializableSql>>

\* C11: whenever getPool() returns a pool, each of its sessions is open
\* against the configured URI and, for a networked backend, has had
\* serializable isolation applied, also when an earlier call threw.  The
\* backend kind is taken as the Database decides it (isSqlite), which keeps
\* the scheme question of C17 out of this formula.
C11_ReturnedPoolFullyOpened ==
    (ret.op = "getPool" /\ ret.status = "ok") =>
        \A i \in 1..Len(mPool.sessions) :
            /\ mPool.sessions[i].opened
            /\ mPool.sessions[i].uri = DATABASE
            /\ ~isSqlite(DATABASE) =>
                  mPool.sessions[i].executed = <<SetSerializableSql>>

\* The category the spec gives each getter.
CategoryOf(getter) ==
    CASE getter = "getInsertTimer" -> "insert"
      [] getter = "getSelectTimer" -> "select"
      [] getter = "getDeleteTimer" -> "delete"
      [] getter = "getUpdateTimer" -> "update"

\* Samples recorded under a key, none when the registry has no such timer.
SampleCount(registry, key) ==
    IF key \in DOMAIN registry THEN registry[key] ELSE 0

AllTimerKeys ==
    {<<"database", category, entityName>> :
        category \in {"insert", "select", "delete", "update"},
        entityName \in Entities}

\* C12: the exit of the scope a timer getter returned for entityName
\* records exactly one sample, under (database, category of the getter,
\* entityName), however the wrapped operation ended; nothing else records.
C12_OneSampleAtScopeExit ==
    [][dbId' = dbId =>
          /\ \A sc \in timerScopes \ timerScopes' :
                \A key \in AllTimerKeys :
                    SampleCount(samples', key) =
                        SampleCount(samples, key)
                        + (IF key = <<"database", CategoryOf(sc.getter),
                                      sc.entity>> THEN 1 ELSE 0)
          /\ timerScopes \subseteq timerScopes' =>
                \A key \in AllTimerKeys :
                    SampleCount(samples', key) = SampleCount(samples, key)
      ]_vars

\* C12 witness: a getSelectTimer("Account") scope was left by unwinding
\* and its sample is in the registry under (database, select, Account).
C12_Witness ==
    /\ ret.op = "~TimerContext"
    /\ ret.exit = "unwind"
    /\ SampleCount(samples, <<"database", "select", "Account">>) = 1
    /\ SampleCount(samples, <<"database", "insert", "Account">>) = 0

\* C13: no two threads using the pool getPool() returned hold the same pool
\* entry at the same time.
C13_SlotsHeldExclusively ==
    \A t1 \in Threads, t2 \in Threads :
        (t1 # t2 /\ holding[t1] # 0 /\ got[t1] = got[t2]) =>
            holding[t1] # holding[t2]

\* C14: with getPool() called from several threads whose steps interleave,
\* at most one pool is made for a Database, no more sessions are opened than
\* the pool has entries, and all callers are returned the same pool.
C14_PoolMadeOnce ==
    /\ poolsMade <= 1
    /\ poolOpens <= hardware
    /\ \A t1 \in Threads, t2 \in Threads :
          (got[t1] # 0 /\ got[t2] # 0) => got[t1] = got[t2]

\* C15: a getPreparedStatement() call that returns leaves its text in the
\* cache bound to the statement returned; an entry of the cache stays, bound
\* to the same statement, and a later call with its text returns that
\* statement without making or preparing one.
C15_CacheGrowsNeverRebinds ==
    [][dbId' = dbId =>
          /\ (stmtCalls' = stmtCalls + 1 /\ ret'.status = "ok") =>
                /\ ret'.query \in DOMAIN mStatements'
                /\ mStatements'[ret'.query] = ret'.stmt
          /\ \A q \in DOMAIN mStatements :
                /\ q \in DOMAIN mStatements'
                /\ mStatements'[q] = mStatements[q]
                /\ prepareCalls'[q] = prepareCalls[q]
                /\ (stmtCalls' = stmtCalls + 1 /\ ret'.query = q) =>
                      /\ ret'.status = "ok"
                      /\ ret'.stmt = mStatements[q]
                      /\ stmtsMade' = stmtsMade]_vars

\* C15 witness: two texts are cached and the latest call, the third or a
\* later one, was answered with a statement prepared once.
C15_Witness ==
    /\ stmtCalls >= 3
    /\ Cardinality(DOMAIN mStatements) >= 2
    /\ ret.op = "getPreparedStatement"
    /\ ret.hit
    /\ prepareCalls[ret.query] = 1

\* The seven schema-owning collaborators.
SchemaOwners ==
    {"AccountFrame", "OfferFrame", "TrustFrame", "OverlayManagerImpl",
     "PersistentState", "LedgerHeaderFrame", "TransactionFrame"}

\* Times dropAll of `owner` was called by the latest initialize().
DropCalls(owner) == Cardinality({i \in DOMAIN dropped : dropped[i] = owner})

\* The failure that reached the caller names `owner`: its text holds the
\* collaborator's name.
NamesStage(what, owner) == \E i \in DOMAIN what : what[i] = owner

\* C16: an initialize() that returns has called dropAll of each of the
\* seven collaborators exactly once; one that fails has called no
\* collaborator twice and none after the one that failed, and the failure
\* that reaches the caller names that collaborator, the stage that failed.
C16_InitializeDropsEachOnce ==
    ret.op = "initialize" =>
        /\ \A i \in DOMAIN dropped : dropped[i] \in SchemaOwners
        /\ ret.status = "ok" =>
              \A owner \in SchemaOwners : DropCalls(owner) = 1
        /\ ret.status = "throw" =>
              /\ dropped # <<>>
              /\ NamesStage(ret.what, dropped[Len(dropped)])
              /\ \A owner \in SchemaOwners : DropCalls(owner) <= 1

\* C17: isSqlite() is true exactly when the scheme of the configured URI,
\* the text before its parameters, is sqlite3.
C17_IsSqliteByScheme ==
    ret.op = "isSqlite" =>
        (ret.value <=> (SchemeColon(DATABASE) = Sqlite3Colon))

\* C18: the log stream of the primary session is null or the buffer of a
\* capture context that is alive, and it is null whenever no capture
\* context is alive, in whatever order the contexts are destroyed.
C18_StreamNullOrAlive ==
    /\ logStream = 0 \/ logStream \in DOMAIN captures
    /\ DOMAIN captures = {} => logStream = 0

\* C18 witness: of two contexts the one made first was destroyed first,
\* the later one still alive.
C18_Witness ==
    /\ ret.op = "~SQLLogContext"
    /\ ret.context = 1
    /\ DOMAIN captures = {2}

\* C19: getBalance returns the account's balance for the native currency
\* when the account loads, the trust line's balance for another currency
\* when the trust line loads and is authorized, and 0 in every other case.
C19_BalanceByCurrency ==
    ret.op = "getBalance" =>
        ret.value =
            CASE ret.currencyType = "NATIVE" /\ ret.account.found ->
                     ret.account.balance
              [] /\ ret.currencyType # "NATIVE"
                 /\ ret.trustLine.found
                 /\ ret.trustLine.authorized -> ret.trustLine.balance
              [] OTHER -> 0

\* C19 witness: a trust line with a balance that is not authorized, on an
\* account that has a balance of its own, gave 0.
C19_Witness ==
    /\ ret.op = "getBalance"
    /\ ret.currencyType = "ISO4217"
    /\ ret.account.found
    /\ ret.account.balance = 9
    /\ ret.trustLine.found
    /\ ~ret.trustLine.authorized
    /\ ret.trustLine.balance = 5
    /\ ret.value = 0

=============================================================================
